---- MODULE Spec2Model ----
(***************************************************************************)
(* The car insurance quote service of acme-api: QuoteService               *)
(* (calculatePremium, getById), QuoteController, and the brand and quote   *)
(* repositories behind them, in the three compositions the repository      *)
(* wires: the unit tests' in-memory mocks, the Knex stage and the Prisma   *)
(* stage.  Every await of the code is a point where another request may    *)
(* run, so each request is a slot that advances one segment at a time.     *)
(***************************************************************************)
EXTENDS Integers, Sequences, FiniteSets

VARIABLES composition, brands, quotes, serial, clock, calls, last, returned,
          lookup, guard, middleware, session

vars ==
  <<composition, brands, quotes, serial, clock, calls, last, returned, lookup,
    guard, middleware, session>>

-----------------------------------------------------------------------------
(* Bounds of the model.                                                    *)

\* Requests that may be inside calculatePremium at the same time.
MaxCalls == 2
\* Quotes the store may hold before new calculations are no longer started.
MaxQuotes == 2

Slots == 1..MaxCalls

\* Inputs of calculatePremium: around both limits and both brand ages.
Ages == {17, 18, 25}
CarIds == {1, 3, 101}
Prices == {4999, 5000}
\* Ids asked of getById: every id the store may assign, one the tests use.
QuoteIds == (1..MaxQuotes) \cup {9001}

-----------------------------------------------------------------------------
(* Program constants.                                                      *)

MINIMUM_AGE == 18
MINIMUM_PURCHASE_PRICE == 5000

\* JavaScript's null and undefined.
Null == [null |-> TRUE]
Undefined == [undefined |-> TRUE]

\* The brand list of the unit tests' MockCarBrandRepository.
BRANDS ==
  << [id |-> 1, name |-> "Mercedes", minimumDriverAge |-> 18, yearlyPremium |-> 1000],
     [id |-> 2, name |-> "BMW", minimumDriverAge |-> 18, yearlyPremium |-> 1250],
     [id |-> 3, name |-> "Audi", minimumDriverAge |-> 18, yearlyPremium |-> 1500],
     [id |-> 4, name |-> "Porsche", minimumDriverAge |-> 25, yearlyPremium |-> 2500] >>

\* The brand list of the in-memory CarBrandRepository (Knex stage).
InMemoryBrands ==
  << [id |-> 1, name |-> "Audi", minimumDriverAge |-> 18, yearlyPremium |-> 250],
     [id |-> 1, name |-> "BMW", minimumDriverAge |-> 18, yearlyPremium |-> 150],
     [id |-> 1, name |-> "Porsche", minimumDriverAge |-> 25, yearlyPremium |-> 500] >>

\* The car_brand table after prisma/seed.ts on an empty database.
SeededBrands ==
  << [id |-> 1, name |-> "Audi", minimumDriverAge |-> 18, yearlyPremium |-> 250],
     [id |-> 2, name |-> "BMW", minimumDriverAge |-> 18, yearlyPremium |-> 150],
     [id |-> 3, name |-> "Porsche", minimumDriverAge |-> 25, yearlyPremium |-> 500] >>

\* A car_brand table seeded otherwise: the schema admits any minimum age.
OtherBrands ==
  << [id |-> 1, name |-> "Trabant", minimumDriverAge |-> 16, yearlyPremium |-> 90],
     [id |-> 3, name |-> "Lada", minimumDriverAge |-> 0, yearlyPremium |-> 5] >>

\* The compositions of QuoteService with its two repositories.
Compositions ==
  { [name |-> "test", brands |-> BRANDS],
    [name |-> "knex", brands |-> InMemoryBrands],
    [name |-> "prisma", brands |-> SeededBrands],
    [name |-> "prisma", brands |-> OtherBrands] }

-----------------------------------------------------------------------------
(* Pure functions.                                                         *)

\* Array.prototype.find / findUnique on the primary key: the first match.
RECURSIVE Find(_, _, _)
Find(rows, id, from) ==
  IF from > Len(rows) THEN Null
  ELSE IF rows[from].id = id THEN rows[from]
  ELSE Find(rows, id, from + 1)

\* CarBrandRepository.findById, the same in all three implementations.
findById(id) == Find(brands, id, 1)

\* MathRound truncating, as Math.floor or an integer division would.
MathFloor(n, d) == n \div d

\* Rounding with a tie going to the even neighbour.
MathRoundHalfEven(n, d) ==
  IF (2 * n) % (2 * d) = d /\ ((n \div d) % 2 = 0)
    THEN n \div d
    ELSE (2 * n + d) \div (2 * d)

\* Math.round(n / d) for d > 0: the nearest integer, a tie going up.
MathRound(n, d) == (2 * n + d) \div (2 * d)

\* A number stored in a Decimal(12, 2) column, kept as hundredths, and read
\* back (Decimal.toNumber, parseFloat of the column's text).
\* The number written to the column as it is, not as hundredths.
toDecimalUnscaled(n) == n

toDecimal(n) == n * 100

\* Reading the stored hundredths as if they were units.
toNumberOfHundredths(d) == d

toNumber(d) == d \div 100

\* The CarInsuranceQuote a stored row stands for.
RowToQuote(row) ==
  IF composition = "test" THEN row
  ELSE [id |-> row.id, ageOfDriver |-> row.ageOfDriver,
        monthlyPremium |-> toNumber(row.monthlyPremium),
        yearlyPremium |-> toNumber(row.yearlyPremium),
        createdOn |-> row.createdOn]

\* The quote handed on as it is (return premium / return quote).
ToPremiumWhole(quote) == quote

\* The Premium record QuoteService builds from a CarInsuranceQuote.
ToPremium(quote) ==
  [id |-> quote.id, monthlyPremium |-> quote.monthlyPremium,
   yearlyPremium |-> quote.yearlyPremium]

-----------------------------------------------------------------------------
(* State.                                                                  *)

IdleCall == [pc |-> "idle"]

IdleLookup == [pc |-> "idle"]

\* The content type the middleware is configured with in the AppModule, and
\* the ones it is tried with.
RequiredContentTypes == {"application/json", "text/xml"}

\* RequireContentTypeMiddleware before its first request.
IdleMiddleware == [requiredContentType |-> "application/json", pc |-> "idle"]

Init ==
  /\ \E c \in Compositions : composition = c.name /\ brands = c.brands
  /\ quotes = << >>
  /\ serial = 0
  /\ clock = 0
  /\ calls = [s \in Slots |-> IdleCall]
  /\ last = Null
  /\ returned = << >>
  /\ lookup = IdleLookup
  /\ guard = Null
  /\ middleware = IdleMiddleware
  /\ session = Null

\* The same state behind a middleware configured with any of the content
\* types.
InitUse ==
  /\ \E c \in Compositions : composition = c.name /\ brands = c.brands
  /\ quotes = << >>
  /\ serial = 0
  /\ clock = 0
  /\ calls = [s \in Slots |-> IdleCall]
  /\ last = Null
  /\ returned = << >>
  /\ lookup = IdleLookup
  /\ guard = Null
  /\ \E required \in RequiredContentTypes :
       middleware = [requiredContentType |-> required, pc |-> "idle"]
  /\ session = Null

\* Requests past the two input checks whose quote is not yet stored.
Pending == {s \in Slots : calls[s].pc \in {"findById", "insert"}}

\* The slot a new request takes: the lowest one that is idle (0 for none).
FreeSlot ==
  IF \E s \in Slots : calls[s].pc = "idle"
    THEN CHOOSE s \in Slots :
           /\ calls[s].pc = "idle"
           /\ \A t \in Slots : calls[t].pc = "idle" => s <= t
    ELSE 0

Args(call) ==
  [ageOfDriver |-> call.ageOfDriver, carId |-> call.carId,
   purchasePrice |-> call.purchasePrice]

\* An exception thrown (a rejected promise), by the name of its class.
Error(name) == [error |-> name]

IsError(v) == "error" \in DOMAIN v

\* The classes that extend BusinessRuleViolation.
BusinessRuleViolations ==
  {"DriveTooYoungError", "PurchasePriceTooLowError", "UnknownCarBrandError",
   "RiskTooHighError"}

\* BusinessRuleViolationFilter.catch.
catch(exception) ==
  [status |-> 409,
   body |-> [message |-> "Business rule violation",
             errors |-> << [name |-> exception.error] >>]]

\* Nest's built-in exception filter: an HttpException gives its own status,
\* anything else 500.
ExceptionsHandler(exception) ==
  IF exception.error = "NotFoundException"
    THEN [status |-> 404, body |-> [statusCode |-> 404, message |-> "Not Found"]]
  ELSE IF exception.error = "UnauthorizedException"
    THEN [status |-> 401,
          body |-> [statusCode |-> 401, message |-> "Unauthorized"]]
  ELSE [status |-> 500,
        body |-> [statusCode |-> 500, message |-> "Internal server error"]]

\* The HTTP response to a request whose handler returned or threw result:
\* the filter bound as APP_FILTER takes the BusinessRuleViolations, the
\* built-in one the rest; a value returned is sent with the route's status.
Respond(status, result) ==
  IF ~IsError(result) THEN [status |-> status, body |-> result]
  ELSE IF result.error \in BusinessRuleViolations THEN catch(result)
  ELSE ExceptionsHandler(result)

\* A calculatePremium call that ended: a rejection, or the Premium returned.
\* repo lists the repository methods the call invoked, in order; http is
\* the response to a POST /quote/calculate that made the call.
Done(args, repo, outcome, premium) ==
  [ageOfDriver |-> args.ageOfDriver, carId |-> args.carId,
   purchasePrice |-> args.purchasePrice, repo |-> repo,
   outcome |-> outcome, premium |-> premium,
   http |-> Respond(201, IF outcome = "Premium" THEN premium
                                                ELSE Error(outcome))]

-----------------------------------------------------------------------------
(* QuoteService.calculatePremium.                                          *)

\* InputChecks with the price looked at before the age.
InputChecksPriceFirst(ageOfDriver, purchasePrice) ==
  IF purchasePrice < MINIMUM_PURCHASE_PRICE THEN "PurchasePriceTooLowError"
  ELSE IF ageOfDriver < MINIMUM_AGE THEN "DriveTooYoungError"
  ELSE "passed"

\* InputChecks comparing the price with the age limit (the wrong constant).
InputChecksWrongLimit(ageOfDriver, purchasePrice) ==
  IF ageOfDriver < MINIMUM_AGE THEN "DriveTooYoungError"
  ELSE IF purchasePrice < MINIMUM_AGE THEN "PurchasePriceTooLowError"
  ELSE "passed"

\* InputChecks with the limits themselves turned away (<= for <).
InputChecksExclusive(ageOfDriver, purchasePrice) ==
  IF ageOfDriver <= MINIMUM_AGE THEN "DriveTooYoungError"
  ELSE IF purchasePrice <= MINIMUM_PURCHASE_PRICE
    THEN "PurchasePriceTooLowError"
  ELSE "passed"

\* The two checks on the inputs alone, in the order of the code.
InputChecks(ageOfDriver, purchasePrice) ==
  IF ageOfDriver < MINIMUM_AGE THEN "DriveTooYoungError"
  ELSE IF purchasePrice < MINIMUM_PURCHASE_PRICE THEN "PurchasePriceTooLowError"
  ELSE "passed"

\* BrandChecks throwing the other error for a brand that is not there.
BrandChecksWrongError(ageOfDriver, brand) ==
  IF brand = Null THEN "RiskTooHighError"
  ELSE IF ageOfDriver < brand.minimumDriverAge THEN "RiskTooHighError"
  ELSE "passed"

\* BrandChecks comparing with the general minimum age, not the brand's.
BrandChecksGeneralAge(ageOfDriver, brand) ==
  IF brand = Null THEN "UnknownCarBrandError"
  ELSE IF ageOfDriver < MINIMUM_AGE THEN "RiskTooHighError"
  ELSE "passed"

\* BrandChecks without the comparison with the brand's minimum age.
BrandChecksNoRisk(ageOfDriver, brand) ==
  IF brand = Null THEN "UnknownCarBrandError" ELSE "passed"

\* BrandChecks with the age compared first, to 25 when there is no brand
\* (ageOfDriver < (brand?.minimumDriverAge ?? 25)).
BrandChecksDefaultAge(ageOfDriver, brand) ==
  IF ageOfDriver < (IF brand = Null THEN 25 ELSE brand.minimumDriverAge)
    THEN "RiskTooHighError"
  ELSE IF brand = Null THEN "UnknownCarBrandError"
  ELSE "passed"

\* The two checks on the brand the lookup answered with (Null for none).
BrandChecks(ageOfDriver, brand) ==
  IF brand = Null THEN "UnknownCarBrandError"
  ELSE IF ageOfDriver < brand.minimumDriverAge THEN "RiskTooHighError"
  ELSE "passed"

\* Call with the brand fetched on entry, ahead of the input checks.
CallFetchesFirst(s, ageOfDriver, carId, purchasePrice) ==
  LET args == [ageOfDriver |-> ageOfDriver, carId |-> carId,
               purchasePrice |-> purchasePrice]
      check == InputChecks(ageOfDriver, purchasePrice)
  IN /\ s = FreeSlot
     /\ check = "passed" => Len(quotes) + Cardinality(Pending) < MaxQuotes
     /\ IF check # "passed"
          THEN /\ last' = Done(args, << "findById" >>, check, Undefined)
               /\ calls' = calls
        ELSE /\ calls' = [calls EXCEPT ![s] =
                  [pc |-> "findById", ageOfDriver |-> ageOfDriver,
                   carId |-> carId, purchasePrice |-> purchasePrice,
                   repo |-> << "findById" >>]]
             /\ last' = last
     /\ UNCHANGED <<composition, brands, quotes, serial, clock, returned, lookup,
                    guard, middleware, session>>

\* Call with the price checked after a charge of one per quote stored.
CallChargesPerQuote(s, ageOfDriver, carId, purchasePrice) ==
  LET args == [ageOfDriver |-> ageOfDriver, carId |-> carId,
               purchasePrice |-> purchasePrice]
      check == InputChecks(ageOfDriver, purchasePrice - Len(quotes))
  IN /\ s = FreeSlot
     /\ check = "passed" => Len(quotes) + Cardinality(Pending) < MaxQuotes
     /\ IF check # "passed"
          THEN /\ last' = Done(args, << >>, check, Undefined)
               /\ calls' = calls
        ELSE /\ calls' = [calls EXCEPT ![s] =
                  [pc |-> "findById", ageOfDriver |-> ageOfDriver,
                   carId |-> carId, purchasePrice |-> purchasePrice,
                   repo |-> << "findById" >>]]
             /\ last' = last
     /\ UNCHANGED <<composition, brands, quotes, serial, clock, returned, lookup,
                    guard, middleware, session>>

\* The call up to its first await: the two input checks, then the brand
\* lookup is issued.
Call(s, ageOfDriver, carId, purchasePrice) ==
  LET args == [ageOfDriver |-> ageOfDriver, carId |-> carId,
               purchasePrice |-> purchasePrice]
      check == InputChecks(ageOfDriver, purchasePrice)
  IN /\ s = FreeSlot
     /\ check = "passed" => Len(quotes) + Cardinality(Pending) < MaxQuotes
     /\ IF check # "passed"
          THEN /\ last' = Done(args, << >>, check, Undefined)
               /\ calls' = calls
        ELSE /\ calls' = [calls EXCEPT ![s] =
                  [pc |-> "findById", ageOfDriver |-> ageOfDriver,
                   carId |-> carId, purchasePrice |-> purchasePrice,
                   repo |-> << "findById" >>]]
             /\ last' = last
     /\ UNCHANGED <<composition, brands, quotes, serial, clock, returned, lookup,
                    guard, middleware, session>>

\* Push assigning a new list instead (this.quotes = [quote]).
PushOverwrites(store, quote) == << quote >>

\* The new quote put in front of the others (unshift).
PushFront(store, quote) == << quote >> \o store

\* Array.prototype.push on the mock's list; the INSERT of one row.
Push(store, quote) == Append(store, quote)

\* MockSave taking the id from the length alone, 1 for the empty list
\* (this.quotes.length || 1).
MockSaveLengthOr1(ageOfDriver, monthlyPremium, yearlyPremium, now) ==
  [id |-> IF Len(quotes) = 0 THEN 1 ELSE Len(quotes),
   ageOfDriver |-> ageOfDriver,
   monthlyPremium |-> monthlyPremium, yearlyPremium |-> yearlyPremium,
   createdOn |-> now]

\* MockSave counting the premiums handed out, not the quotes stored: right
\* for one caller at a time, wrong once two saves precede a return.
MockSaveCountsReturned(ageOfDriver, monthlyPremium, yearlyPremium, now) ==
  [id |-> Len(returned) + 1, ageOfDriver |-> ageOfDriver,
   monthlyPremium |-> monthlyPremium, yearlyPremium |-> yearlyPremium,
   createdOn |-> now]

\* MockSave numbering from 0 (this.quotes.length for the id).
MockSaveFromZero(ageOfDriver, monthlyPremium, yearlyPremium, now) ==
  [id |-> Len(quotes), ageOfDriver |-> ageOfDriver,
   monthlyPremium |-> monthlyPremium, yearlyPremium |-> yearlyPremium,
   createdOn |-> now]

\* MockCarInsuranceQuoteRepository.save: no await between taking the id and
\* the push.
MockSave(ageOfDriver, monthlyPremium, yearlyPremium, now) ==
  [id |-> Len(quotes) + 1, ageOfDriver |-> ageOfDriver,
   monthlyPremium |-> monthlyPremium, yearlyPremium |-> yearlyPremium,
   createdOn |-> now]

\* The call from the brand lookup's answer to its second await: the two
\* brand checks, then save is entered.  The mock's save runs to its end
\* here; the Knex and Prisma saves read the clock and send their INSERT.
\* The clock (new Date()) is a logical one: each reading is later than the
\* one before.
FindByIdReturns(s) ==
  LET call == calls[s]
      brand == findById(call.carId)
      check == BrandChecks(call.ageOfDriver, brand)
  IN /\ call.pc = "findById"
     /\ IF check # "passed"
          THEN /\ last' = Done(Args(call), call.repo, check, Undefined)
               /\ calls' = [calls EXCEPT ![s] = IdleCall]
               /\ UNCHANGED <<quotes, clock>>
        ELSE LET now == clock
                   monthlyPremium == MathRound(brand.yearlyPremium, 12)
                   quote == MockSave(call.ageOfDriver, monthlyPremium,
                                     brand.yearlyPremium, now)
               IN /\ clock' = clock + 1
                  /\ last' = last
                  /\ IF composition = "test"
                       THEN /\ quotes' = Push(quotes, quote)
                            /\ calls' = [calls EXCEPT ![s] =
                                 [pc |-> "saved", ageOfDriver |-> call.ageOfDriver,
                                  carId |-> call.carId,
                                  purchasePrice |-> call.purchasePrice,
                                  repo |-> Append(call.repo, "save"),
                                  quote |-> quote]]
                       ELSE /\ quotes' = quotes
                            /\ calls' = [calls EXCEPT ![s] =
                                 [pc |-> "insert", ageOfDriver |-> call.ageOfDriver,
                                  carId |-> call.carId,
                                  purchasePrice |-> call.purchasePrice,
                                  repo |-> Append(call.repo, "save"),
                                  monthlyPremium |-> monthlyPremium,
                                  yearlyPremium |-> brand.yearlyPremium,
                                  createdOn |-> now]]
     /\ UNCHANGED <<composition, brands, serial, returned, lookup,
                    guard, middleware, session>>

\* The row an INSERT into car_insurance_quote stores: id from the serial
\* sequence, the premiums as Decimal(12, 2).
InsertedRow(id, call) ==
  [id |-> id, ageOfDriver |-> call.ageOfDriver,
   monthlyPremium |-> toDecimal(call.monthlyPremium),
   yearlyPremium |-> toDecimal(call.yearlyPremium),
   createdOn |-> call.createdOn]

\* A save that reads its result back with a SELECT that has no WHERE: the
\* oldest row of the table, its own only when the table was empty.
SavedQuoteOldestRow(row, call) ==
  IF quotes = << >> THEN RowToQuote(row) ELSE RowToQuote(quotes[1])

\* What save resolves with: Knex hands back its arguments with the new id,
\* Prisma converts the created row.
SavedQuote(row, call) ==
  IF composition = "knex"
    THEN [id |-> row.id, ageOfDriver |-> call.ageOfDriver,
          monthlyPremium |-> call.monthlyPremium,
          yearlyPremium |-> call.yearlyPremium, createdOn |-> call.createdOn]
    ELSE RowToQuote(row)

\* The database executes the INSERT of a Knex or Prisma save.
Insert(s) ==
  LET call == calls[s]
      row == InsertedRow(serial + 1, call)
  IN /\ call.pc = "insert"
     /\ serial' = serial + 1
     /\ quotes' = Push(quotes, row)
     /\ calls' = [calls EXCEPT ![s] =
          [pc |-> "saved", ageOfDriver |-> call.ageOfDriver,
           carId |-> call.carId, purchasePrice |-> call.purchasePrice,
           repo |-> call.repo, quote |-> SavedQuote(row, call)]]
     /\ UNCHANGED <<composition, brands, clock, last, returned, lookup,
                    guard, middleware, session>>

\* The call after save: the Premium is built and returned.
SaveReturns(s) ==
  LET call == calls[s]
      premium == ToPremium(call.quote)
  IN /\ call.pc = "saved"
     /\ last' = Done(Args(call), call.repo, "Premium", premium)
     /\ calls' = [calls EXCEPT ![s] = IdleCall]
     /\ returned' = Append(returned,
          [ageOfDriver |-> call.ageOfDriver, carId |-> call.carId,
           purchasePrice |-> call.purchasePrice, premium |-> premium])
     /\ UNCHANGED <<composition, brands, quotes, serial, clock, lookup,
                    guard, middleware, session>>

-----------------------------------------------------------------------------
(* RequireContentTypeMiddleware.                                           *)

\* A header that is there, with its value.
Header(value) == [value |-> value]

\* The content-type header of a request: one of the types, a type with a
\* parameter, or none (Undefined for req.headers['content-type']).
ContentTypes ==
  {Header("application/json"), Header("text/xml"),
   Header("application/json; charset=utf-8"), Undefined}

\* use without the return after the 400: next() is called as well.
useFallsThrough(contentType, requiredContentType) ==
  IF contentType # Header(requiredContentType)
    THEN [next |-> 1,
          sent |-> << [status |-> 400,
                       body |-> << "Content-Type", requiredContentType,
                                   "is required." >>] >>]
    ELSE [next |-> 1, sent |-> << >>]

\* RequireContentTypeMiddleware.use: how often it calls next() and the
\* responses it sends.
use(contentType, requiredContentType) ==
  IF contentType # Header(requiredContentType)
    THEN [next |-> 0,
          sent |-> << [status |-> 400,
                       body |-> << "Content-Type", requiredContentType,
                                   "is required." >>] >>]
    ELSE [next |-> 1, sent |-> << >>]

\* A request reaches the middleware.
Use(contentType) ==
  /\ middleware' =
       [requiredContentType |-> middleware.requiredContentType,
        pc |-> "used", contentType |-> contentType,
        next |-> use(contentType, middleware.requiredContentType).next,
        sent |-> use(contentType, middleware.requiredContentType).sent]
  /\ UNCHANGED <<composition, brands, quotes, serial, clock, calls, last,
                 returned, lookup, guard, session>>

\* next() handed the request on to its route handler.
Passed == middleware.pc = "used" /\ middleware.next > 0

-----------------------------------------------------------------------------
(* AuthGuard('jwt') in front of the QuoteController.                       *)

Routes == {"POST /quote/calculate", "GET /quote/:id"}

\* What a request carries as its bearer token: one that JwtStrategy
\* verifies, none, or one that fails verification (expired, forged).
Tokens == {"valid", "none", "expired"}

\* The body of the POST requests and the id of the GET requests sent: a
\* quote that is granted, and an id no quote has.
Bodies == {[ageOfDriver |-> 25, carId |-> 1, purchasePrice |-> 5000]}

PathIds == {9001}

\* UseGuards on the post method alone, not on the class.
GuardedPostOnly(route) == route = "POST /quote/calculate"

\* The routes AuthGuard('jwt') stands in front of: UseGuards is on the
\* QuoteController class, so both.
Guarded(route) == route \in Routes

\* AuthGuard('jwt').canActivate: passport-jwt takes the bearer token and
\* verifies its signature and expiry.
canActivate(route, token) == Guarded(route) => token = "valid"

\* A request arrives and the guard examines it.  One it turns away is
\* answered at once with UnauthorizedException; one it lets through waits
\* for its handler.
Request(route, token, input) ==
  /\ guard' = IF canActivate(route, token)
                THEN [route |-> route, token |-> token, input |-> input,
                      activated |-> TRUE]
                ELSE [route |-> route, token |-> token, input |-> input,
                      activated |-> FALSE,
                      http |-> ExceptionsHandler(
                                 Error("UnauthorizedException"))]
  /\ UNCHANGED <<composition, brands, quotes, serial, clock, calls, last,
                 returned, lookup, middleware, session>>

\* The guard let a request for route through to its handler.
Activated(route) ==
  guard # Null /\ guard.route = route /\ guard.activated

-----------------------------------------------------------------------------
(* Statements the database fails.                                          *)

\* What a repository backed by the database rejects with when its statement
\* fails: the connection is gone, or the server refuses the statement.
StorageErrors == {Error("ConnectionError"), Error("QueryError")}

\* The saves that failed so far: each save reads the clock once, and each
\* one that did not fail has its row stored or its INSERT under way.
FailedSaves ==
  clock - Len(quotes) - Cardinality({s \in Slots : calls[s].pc = "insert"})

\* The number of saves that fail in one behaviour.
MaxFailedSaves == 1

\* A catch around the awaits that wraps what the repository rejected with.
CaughtAndWrapped(error) == Error("InternalServerErrorException")

\* calculatePremium awaits its repositories outside any try / catch: what a
\* repository rejects with is what the call rejects with.
Uncaught(error) == error

\* A calculatePremium call that ended because a repository rejected with
\* raised.
Failed(args, repo, raised) ==
  [ageOfDriver |-> args.ageOfDriver, carId |-> args.carId,
   purchasePrice |-> args.purchasePrice, repo |-> repo,
   outcome |-> "StorageFailure", premium |-> Undefined,
   raised |-> raised, error |-> Uncaught(raised),
   http |-> Respond(201, Uncaught(raised))]

\* The SELECT of PrismaCarBrandRepository.findById fails.  The brand lists
\* of the other compositions are in memory and cannot.
FindByIdFails(s, raised) ==
  LET call == calls[s]
  IN /\ call.pc = "findById"
     /\ composition = "prisma"
     /\ last' = Failed(Args(call), call.repo, raised)
     /\ calls' = [calls EXCEPT ![s] = IdleCall]
     /\ UNCHANGED <<composition, brands, quotes, serial, clock, returned, lookup,
                    guard, middleware, session>>

\* A save that logs the failure of its INSERT and sends the INSERT again.
InsertFailsAndRetries(s, raised) ==
  LET call == calls[s]
  IN /\ call.pc = "insert"
     /\ last' = Failed(Args(call), call.repo, raised)
     /\ UNCHANGED <<composition, brands, quotes, serial, clock, calls,
                    returned, lookup,
                    guard, middleware, session>>

\* The INSERT of a Knex or Prisma save fails: no row is stored.  The serial
\* sequence may or may not have been advanced by it: it is not rolled back.
InsertFails(s, raised) ==
  LET call == calls[s]
  IN /\ call.pc = "insert"
     /\ FailedSaves < MaxFailedSaves
     /\ \E lost \in {0, 1} : serial' = serial + lost
     /\ last' = Failed(Args(call), call.repo, raised)
     /\ calls' = [calls EXCEPT ![s] = IdleCall]
     /\ UNCHANGED <<composition, brands, quotes, clock, returned, lookup,
                    guard, middleware, session>>

-----------------------------------------------------------------------------
(* CarInsuranceQuoteRepository.load, QuoteService.getById and              *)
(* QuoteController.getById.                                                *)

\* What load resolves with, given what the store found for the id (a row, or
\* Null for no row).  The mock and Prisma answer null for no row; Knex reads
\* row.id of the undefined that first() gave it.
load(row) ==
  IF composition = "test" THEN row
  ELSE IF composition = "prisma"
    THEN IF row = Null THEN Null ELSE RowToQuote(row)
  ELSE IF row = Null THEN Error("TypeError") ELSE RowToQuote(row)

\* QuoteService.getById, after its await of load.
getById(quote) ==
  IF IsError(quote) THEN quote
  ELSE IF quote = Null THEN Undefined
  ELSE ToPremium(quote)

\* QuoteController.getById, after its await of the service.
ControllerGetById(premium) ==
  IF IsError(premium) THEN premium
  ELSE IF premium = Undefined THEN Error("NotFoundException")
  ELSE premium

\* What a lookup keeps of the one that ended before it: its id, the size of
\* the store it read and its results.
Previous(ended) ==
  IF ended.pc = "done"
    THEN [id |-> ended.id, read |-> ended.read, premium |-> ended.premium,
          response |-> ended.response]
    ELSE Null

\* GET /quote/:id up to the await of load.  The mock's load runs its find
\* at once; Knex and Prisma send their SELECT.  known counts the calls of
\* calculatePremium that had returned when this lookup was made, read is
\* the size of the store at the time it is searched.
GetById(id) ==
  /\ lookup.pc \in {"idle", "done"}
  /\ lookup' = IF composition = "test"
                 THEN [pc |-> "loaded", id |-> id, known |-> Len(returned),
                       prev |-> Previous(lookup), read |-> Len(quotes),
                       row |-> Find(quotes, id, 1)]
                 ELSE [pc |-> "select", id |-> id, known |-> Len(returned),
                       prev |-> Previous(lookup)]
  /\ UNCHANGED <<composition, brands, quotes, serial, clock, calls, last,
                 returned,
                 guard, middleware, session>>

\* A SELECT that takes the row it reads out of the table.
SelectAndDelete ==
  /\ lookup.pc = "select"
  /\ lookup' = [pc |-> "loaded", id |-> lookup.id, known |-> lookup.known,
                prev |-> lookup.prev, read |-> Len(quotes),
                row |-> Find(quotes, lookup.id, 1)]
  /\ quotes' = SelectSeq(quotes, LAMBDA row : row.id # lookup.id)
  /\ UNCHANGED <<composition, brands, serial, clock, calls, last, returned,
                 guard, middleware, session>>

\* The database executes the SELECT of a Knex or Prisma load.
Select ==
  /\ lookup.pc = "select"
  /\ lookup' = [pc |-> "loaded", id |-> lookup.id, known |-> lookup.known,
                prev |-> lookup.prev, read |-> Len(quotes),
                row |-> Find(quotes, lookup.id, 1)]
  /\ UNCHANGED <<composition, brands, quotes, serial, clock, calls, last,
                 returned,
                 guard, middleware, session>>

\* load resolves or rejects; the service and then the controller answer.
LoadReturns ==
  /\ lookup.pc = "loaded"
  /\ lookup' = [pc |-> "done", id |-> lookup.id, known |-> lookup.known,
                prev |-> lookup.prev, read |-> lookup.read,
                row |-> lookup.row,
                quote |-> load(lookup.row),
                premium |-> getById(load(lookup.row)),
                response |-> ControllerGetById(getById(load(lookup.row))),
                http |-> Respond(200,
                           ControllerGetById(getById(load(lookup.row))))]
  /\ UNCHANGED <<composition, brands, quotes, serial, clock, calls, last,
                 returned,
                 guard, middleware, session>>

-----------------------------------------------------------------------------

\* The steps of calculatePremium requests.
NextCalc ==
  \/ \E s \in Slots, ageOfDriver \in Ages, carId \in CarIds,
        purchasePrice \in Prices : Call(s, ageOfDriver, carId, purchasePrice)
  \/ \E s \in Slots : FindByIdReturns(s)
  \/ \E s \in Slots : Insert(s)
  \/ \E s \in Slots : SaveReturns(s)

\* calculatePremium requests alone.
SpecCalc == Init /\ [][NextCalc]_vars

\* The inputs of the calculatePremium requests that run next to lookups or
\* against a database that fails: one request that fails and one that
\* stores a quote.
QueryAges == {17, 25}

\* The brand ids asked for while the database may fail: one that stands for
\* a brand in every composition and one that stands for none.
FaultCarIds == {1, 101}

\* calculatePremium requests against repositories that may fail.
NextFault ==
  \/ \E s \in Slots, ageOfDriver \in QueryAges, carId \in FaultCarIds :
        Call(s, ageOfDriver, carId, MINIMUM_PURCHASE_PRICE)
  \/ \E s \in Slots : FindByIdReturns(s)
  \/ \E s \in Slots, raised \in StorageErrors : FindByIdFails(s, raised)
  \/ \E s \in Slots : Insert(s)
  \/ \E s \in Slots, raised \in StorageErrors : InsertFails(s, raised)
  \/ \E s \in Slots : SaveReturns(s)

SpecFault == Init /\ [][NextFault]_vars

\* Requests that between them end in each way calculatePremium can end:
\* brand 3 is unknown to the in-memory list, asks for a driver of 25 in the
\* seeded table and is open to a driver of 18 elsewhere.
LiveInputs == {<<17, 3, 5000>>, <<18, 3, 4999>>, <<18, 3, 5000>>}

NextLive ==
  \/ \E s \in Slots, input \in LiveInputs :
        Call(s, input[1], input[2], input[3])
  \/ \E s \in Slots : FindByIdReturns(s)
  \/ \E s \in Slots, raised \in StorageErrors : FindByIdFails(s, raised)
  \/ \E s \in Slots : Insert(s)
  \/ \E s \in Slots, raised \in StorageErrors : InsertFails(s, raised)
  \/ \E s \in Slots : SaveReturns(s)

\* Every repository call that is awaited returns or fails, and the call
\* that awaited it is resumed.
Fairness ==
  \A s \in Slots :
    /\ WF_vars(FindByIdReturns(s) \/ \E raised \in StorageErrors :
                                       FindByIdFails(s, raised))
    /\ WF_vars(Insert(s) \/ \E raised \in StorageErrors :
                              InsertFails(s, raised))
    /\ WF_vars(SaveReturns(s))

SpecLive == Init /\ [][NextLive]_vars /\ Fairness

Next ==
  \/ \E s \in Slots, ageOfDriver \in Ages, carId \in CarIds,
        purchasePrice \in Prices : Call(s, ageOfDriver, carId, purchasePrice)
  \/ \E s \in Slots : FindByIdReturns(s)
  \/ \E s \in Slots : Insert(s)
  \/ \E s \in Slots : SaveReturns(s)
  \/ \E id \in QuoteIds : GetById(id)
  \/ Select
  \/ LoadReturns

Spec == Init /\ [][Next]_vars

\* Lookups, with calculatePremium requests that fill the store.
NextQuery ==
  \/ \E s \in Slots, ageOfDriver \in QueryAges :
        Call(s, ageOfDriver, 1, MINIMUM_PURCHASE_PRICE)
  \/ \E s \in Slots : FindByIdReturns(s)
  \/ \E s \in Slots : Insert(s)
  \/ \E s \in Slots : SaveReturns(s)
  \/ \E id \in QuoteIds : GetById(id)
  \/ Select
  \/ LoadReturns

SpecQuery == Init /\ [][NextQuery]_vars

\* HTTP requests with and without a valid token: the handlers run for the
\* requests the guard let through.
NextHttp ==
  \/ \E token \in Tokens, body \in Bodies :
        Request("POST /quote/calculate", token, body)
  \/ \E token \in Tokens, id \in PathIds :
        Request("GET /quote/:id", token, id)
  \/ \E s \in Slots :
        /\ Activated("POST /quote/calculate")
        /\ Call(s, guard.input.ageOfDriver, guard.input.carId,
                guard.input.purchasePrice)
  \/ \E s \in Slots : FindByIdReturns(s)
  \/ \E s \in Slots : Insert(s)
  \/ \E s \in Slots : SaveReturns(s)
  \/ Activated("GET /quote/:id") /\ GetById(guard.input)
  \/ Select
  \/ LoadReturns

SpecHttp == Init /\ [][NextHttp]_vars

\* The largest yearlyPremium of the brands priced below.
MaxYearly == 150

\* A car_brand table of one brand, open to a driver of 18, at any price
\* from 0 to MaxYearly.
InitRound ==
  /\ composition = "prisma"
  /\ \E y \in 0..MaxYearly :
       brands = << [id |-> 1, name |-> "Audi", minimumDriverAge |-> 18,
                    yearlyPremium |-> y] >>
  /\ quotes = << >>
  /\ serial = 0
  /\ clock = 0
  /\ calls = [s \in Slots |-> IdleCall]
  /\ last = Null
  /\ returned = << >>
  /\ lookup = IdleLookup
  /\ guard = Null
  /\ middleware = IdleMiddleware
  /\ session = Null

\* Premiums calculated for that brand.
NextRound ==
  \/ \E s \in Slots : Call(s, MINIMUM_AGE, 1, MINIMUM_PURCHASE_PRICE)
  \/ \E s \in Slots : FindByIdReturns(s)
  \/ \E s \in Slots : Insert(s)
  \/ \E s \in Slots : SaveReturns(s)

SpecRound == InitRound /\ [][NextRound]_vars

\* Requests through the middleware, applied to every route: POST
\* /quote/calculate runs for the requests handed on by next().
NextUse ==
  \/ \E contentType \in ContentTypes : Use(contentType)
  \/ \E s \in Slots, ageOfDriver \in QueryAges :
        /\ Passed
        /\ Call(s, ageOfDriver, 1, MINIMUM_PURCHASE_PRICE)
  \/ \E s \in Slots : FindByIdReturns(s)
  \/ \E s \in Slots : Insert(s)
  \/ \E s \in Slots : SaveReturns(s)

SpecUse == InitUse /\ [][NextUse]_vars

-----------------------------------------------------------------------------
(* Signing in: LocalStrategy, AuthenticationService and UsersService.      *)

\* UsersService.users.
Users ==
  << [id |-> 1, username |-> "Bob", password |-> "abc123"],
     [id |-> 2, username |-> "Alice", password |-> "def456"] >>

\* The credentials the sign-in requests carry.  passport-local turns away
\* a request without a username or a password before validate runs, so
\* both are strings that are not empty.
Usernames == {"Bob", "Alice", "Mallory"}

Passwords == {"abc123", "def456", "letmein"}

\* UsersService.findByUsername: Array.prototype.find, the first user of
\* that username or undefined.
findByUsername(username) ==
  LET hits == {i \in 1..Len(Users) : Users[i].username = username}
  IN  IF hits = {}
        THEN Undefined
        ELSE Users[CHOOSE i \in hits : \A j \in hits : i <= j]

\* A validate that hands back the user as it is stored.
validateKeepsPassword(username, password) ==
  LET user == findByUsername(username)
  IN  IF user # Undefined /\ user.password = password THEN user ELSE Null

\* AuthenticationService.validate: user?.password === password, which no
\* string satisfies for a user that is undefined, and the user without its
\* password.
validate(username, password) ==
  LET user == findByUsername(username)
  IN  IF user # Undefined /\ user.password = password
        THEN [id |-> user.id, username |-> user.username]
        ELSE Null

\* LocalStrategy.validate: UnauthorizedException for null.
LocalStrategyValidate(username, password) ==
  LET user == validate(username, password)
  IN  IF user = Null THEN Error("UnauthorizedException") ELSE user

\* AuthenticationService.signin: the payload jwtService.sign signs.
signin(user) == [username |-> user.username, sub |-> user.id]

\* POST /authentication/signin: AuthGuard('local') runs LocalStrategy, and
\* the controller answers with the access token for req.user.
Signin(username, password) ==
  /\ session' =
       LET user == LocalStrategyValidate(username, password)
       IN  [username |-> username, password |-> password,
            validated |-> validate(username, password),
            http |-> IF IsError(user)
                       THEN ExceptionsHandler(user)
                       ELSE Respond(201, [accessToken |-> signin(user)])]
  /\ UNCHANGED <<composition, brands, quotes, serial, clock, calls, last,
                 returned, lookup, guard, middleware>>

\* The last sign-in was answered with an access token.
SignedIn == session # Null /\ session.validated # Null

\* Sign-ins, and POST /quote/calculate for the requests that carry the
\* access token of one.
NextAuth ==
  \/ \E username \in Usernames, password \in Passwords :
        Signin(username, password)
  \/ \E s \in Slots, ageOfDriver \in QueryAges :
        /\ SignedIn
        /\ Call(s, ageOfDriver, 1, MINIMUM_PURCHASE_PRICE)
  \/ \E s \in Slots : FindByIdReturns(s)
  \/ \E s \in Slots : Insert(s)
  \/ \E s \in Slots : SaveReturns(s)

SpecAuth == Init /\ [][NextAuth]_vars

-----------------------------------------------------------------------------
(* The rule checks of calculatePremium (C1 to C5).                         *)

\* The requests that are past the input checks.
Active == {s \in Slots : calls[s].pc # "idle"}

Ended == last # Null

\* The brand the store resolves the last ended call's carId to.
LastBrand == findById(last.carId)

\* C1: a call with driverAge < 18 fails with DriverTooYoung whatever its
\* brandId and purchasePrice, and never gets as far as the brand lookup.
C1_DriverTooYoung ==
  /\ Ended /\ last.ageOfDriver < 18 => last.outcome = "DriveTooYoungError"
  /\ \A s \in Active : calls[s].ageOfDriver >= 18

\* A too young driver was rejected although the brand is unknown and the
\* price too low as well.
C1_Witness ==
  /\ Ended /\ last.ageOfDriver < 18 /\ last.outcome = "DriveTooYoungError"
  /\ LastBrand = Null /\ last.purchasePrice < 5000

\* C2: a call with purchasePrice < 5000 and driverAge >= 18 fails with
\* PurchasePriceTooLow whatever its brandId, and never gets as far as the
\* brand lookup.
C2_PurchasePriceTooLow ==
  /\ Ended /\ last.ageOfDriver >= 18 /\ last.purchasePrice < 5000
       => last.outcome = "PurchasePriceTooLowError"
  /\ \A s \in Active : calls[s].purchasePrice >= 5000

\* A low price was rejected for an adult driver and an unknown brand.
C2_Witness ==
  /\ Ended /\ last.ageOfDriver >= 18 /\ last.purchasePrice < 5000
  /\ last.outcome = "PurchasePriceTooLowError" /\ LastBrand = Null

\* C3: a call whose brandId is not in the brand store, with driverAge >= 18
\* and purchasePrice >= 5000, fails with UnknownBrand.
C3_UnknownBrand ==
  Ended /\ LastBrand = Null /\ last.ageOfDriver >= 18
        /\ last.purchasePrice >= 5000
    => last.outcome = "UnknownCarBrandError"

\* An unknown brand was rejected for inputs that pass both input checks.
C3_Witness ==
  /\ Ended /\ LastBrand = Null /\ last.ageOfDriver >= 18
  /\ last.purchasePrice >= 5000 /\ last.outcome = "UnknownCarBrandError"

\* C4 as stated: for a brand of the store with minimum age M, every call
\* with driverAge in [18, M) fails with RiskTooHigh, whatever the price.
C4_AnyPrice ==
  Ended /\ LastBrand # Null /\ last.ageOfDriver >= 18
        /\ last.ageOfDriver < LastBrand.minimumDriverAge
    => last.outcome = "RiskTooHighError"

\* C4, amended: for a brand of the store with minimum age M, every call with
\* driverAge in [18, M) and purchasePrice >= 5000 fails with RiskTooHigh.
C4_RiskTooHigh ==
  Ended /\ LastBrand # Null /\ last.ageOfDriver >= 18
        /\ last.ageOfDriver < LastBrand.minimumDriverAge
        /\ last.purchasePrice >= 5000
    => last.outcome = "RiskTooHighError"

\* A driver of 18 or more, younger than the brand asks for, was rejected.
C4_Witness ==
  /\ Ended /\ LastBrand # Null /\ last.ageOfDriver >= 18
  /\ last.ageOfDriver < LastBrand.minimumDriverAge
  /\ last.purchasePrice >= 5000 /\ last.outcome = "RiskTooHighError"

\* The result of a call is the premium of a brand with yearly premium y:
\* y itself and the integer nearest to y / 12.
IsPremiumOf(result, y) ==
  /\ result.outcome = "Premium"
  /\ result.premium.yearlyPremium = y
  /\ 12 * result.premium.monthlyPremium - 6 <= y
  /\ y <= 12 * result.premium.monthlyPremium + 6

\* C5 as stated: for a brand of the store with minimum age M >= 0 and yearly
\* premium Y, every call with driverAge >= M and purchasePrice >= 5000
\* succeeds with yearlyPremium = Y and monthlyPremium = round(Y / 12).
C5_AnyMinimumAge ==
  Ended /\ LastBrand # Null /\ LastBrand.minimumDriverAge >= 0
        /\ last.ageOfDriver >= LastBrand.minimumDriverAge
        /\ last.purchasePrice >= 5000
    => IsPremiumOf(last, LastBrand.yearlyPremium)

\* C5, amended: the same for every driverAge >= M that is also >= 18.
C5_Premium ==
  Ended /\ LastBrand # Null /\ LastBrand.minimumDriverAge >= 0
        /\ last.ageOfDriver >= LastBrand.minimumDriverAge
        /\ last.ageOfDriver >= 18
        /\ last.purchasePrice >= 5000
    => IsPremiumOf(last, LastBrand.yearlyPremium)

\* A call succeeded for a brand whose yearly premium is no multiple of 12.
C5_Witness ==
  /\ Ended /\ LastBrand # Null /\ last.outcome = "Premium"
  /\ last.ageOfDriver >= LastBrand.minimumDriverAge
  /\ last.purchasePrice >= 5000
  /\ LastBrand.yearlyPremium % 12 # 0
  /\ IsPremiumOf(last, LastBrand.yearlyPremium)

-----------------------------------------------------------------------------
(* The quote store under calculatePremium (C6 to C9).                      *)

\* The requests whose save is done and whose Premium is not yet returned.
Saved == {s \in Slots : calls[s].pc = "saved"}

Quiescent == \A s \in Slots : calls[s].pc = "idle"

\* The stored quotes, as load would read each of them.
StoredQuotes == [i \in 1..Len(quotes) |-> RowToQuote(quotes[i])]

\* C6: the store holds one quote per call that returned a Premium (and one
\* per call that has saved and is about to return); a call that ends in a
\* rule violation ends with the store as it was.
C6_OneQuotePerSuccess ==
  /\ [](Len(quotes) = Len(returned) + Cardinality(Saved))
  /\ [](Quiescent => Len(quotes) = Len(returned))
  /\ [][last' # last /\ last'.outcome # "Premium" => quotes' = quotes]_vars

\* Two calls have returned a Premium, a later one was rejected, nothing is
\* in flight, and the store holds two quotes.
C6_Witness ==
  /\ Quiescent /\ Len(returned) = 2 /\ Len(quotes) = 2
  /\ Ended /\ last.outcome = "DriveTooYoungError"

\* The calls that created a quote: those returned and those about to.
Creators ==
  {[id |-> returned[i].premium.id, ageOfDriver |-> returned[i].ageOfDriver,
    carId |-> returned[i].carId, purchasePrice |-> returned[i].purchasePrice] :
     i \in 1..Len(returned)}
  \cup
  {[id |-> calls[s].quote.id, ageOfDriver |-> calls[s].ageOfDriver,
    carId |-> calls[s].carId, purchasePrice |-> calls[s].purchasePrice] :
     s \in Saved}

\* C7: every stored quote was created by a call that passed all four rule
\* checks: age >= 18, price >= 5000, brand in the store, age >= the brand's
\* minimum age.
C7_QuotesPassedChecks ==
  \A i \in 1..Len(quotes) :
    \E c \in Creators :
      /\ c.id = StoredQuotes[i].id
      /\ c.ageOfDriver = StoredQuotes[i].ageOfDriver
      /\ StoredQuotes[i].ageOfDriver >= 18
      /\ c.purchasePrice >= 5000
      /\ findById(c.carId) # Null
      /\ StoredQuotes[i].ageOfDriver >= findById(c.carId).minimumDriverAge

\* A quote is stored for a brand that asks for more than 18 years.
C7_Witness ==
  \E i \in 1..Len(quotes) :
    \E c \in Creators :
      /\ c.id = StoredQuotes[i].id
      /\ findById(c.carId) # Null
      /\ findById(c.carId).minimumDriverAge > 18
      /\ StoredQuotes[i].ageOfDriver >= findById(c.carId).minimumDriverAge

\* C8: all stored quotes have pairwise distinct ids, and so have the
\* premiums returned by successive successful calls.
C8_DistinctIds ==
  /\ \A i, j \in 1..Len(quotes) :
       i # j => StoredQuotes[i].id # StoredQuotes[j].id
  /\ \A i, j \in 1..Len(returned) :
       i # j => returned[i].premium.id # returned[j].premium.id

\* Two calls in a row have succeeded, with two quotes stored.
C8_Witness ==
  /\ Quiescent /\ Len(returned) = 2 /\ Len(quotes) = 2
  /\ returned[1].premium.id # returned[2].premium.id

\* The ids handed to callers so far: returned, or held by a call whose save
\* has resolved.
IdsOfReturned == [i \in 1..Len(returned) |-> returned[i].premium.id]

StoredUnder(id) == {i \in 1..Len(quotes) : StoredQuotes[i].id = id}

\* C9: with calls interleaved at their awaits, the calls that get past save
\* hold pairwise distinct ids, and each id they hold or have returned is the
\* id of exactly one stored quote.
C9_ConcurrentIds ==
  /\ \A s, t \in Saved : s # t => calls[s].quote.id # calls[t].quote.id
  /\ \A s \in Saved : \A i \in 1..Len(returned) :
       calls[s].quote.id # IdsOfReturned[i]
  /\ \A i, j \in 1..Len(returned) :
       i # j => IdsOfReturned[i] # IdsOfReturned[j]
  /\ \A s \in Saved : Cardinality(StoredUnder(calls[s].quote.id)) = 1
  /\ \A i \in 1..Len(returned) : Cardinality(StoredUnder(IdsOfReturned[i])) = 1

\* Two calls are past their save at the same time, neither has returned.
C9_Witness ==
  \E s, t \in Saved :
    /\ s # t
    /\ calls[s].quote.id # calls[t].quote.id
    /\ Cardinality(StoredUnder(calls[s].quote.id)) = 1
    /\ Cardinality(StoredUnder(calls[t].quote.id)) = 1

-----------------------------------------------------------------------------
(* getById (C10).                                                          *)

\* C10: for an id under which the store has no quote, QuoteService.getById
\* returns undefined and QuoteController.getById throws NotFoundException;
\* for the id of a stored quote neither reports not-found.
C10_NotFound ==
  lookup.pc = "done" =>
    IF lookup.row = Null
      THEN /\ lookup.premium = Undefined
           /\ lookup.response = Error("NotFoundException")
      ELSE /\ lookup.premium = ToPremium(RowToQuote(lookup.row))
           /\ lookup.response = lookup.premium

-----------------------------------------------------------------------------
(* The repositories' load (C11).                                           *)

\* C11: in every implementation of the quote repository, load of an id with
\* no stored row resolves with null / undefined and does not throw.
C11_LoadAbsent ==
  lookup.pc = "done" /\ lookup.row = Null => lookup.quote = Null

-----------------------------------------------------------------------------
(* getById reads and nothing more (C12).                                   *)

\* C12: no step of a getById changes the quote store (its rows and the
\* serial of its table) or the brand store, and of two consecutive getById
\* calls with the same id that read the same store (the store only grows,
\* so the same size is the same store) the second gives what the first
\* gave, to the service's caller and to the controller's.
C12_PureRead ==
  /\ [](lookup.pc = "done" /\ lookup.prev # Null
          /\ lookup.prev.id = lookup.id /\ lookup.prev.read = lookup.read
        => /\ lookup.premium = lookup.prev.premium
           /\ lookup.response = lookup.prev.response)
  /\ [][lookup' # lookup
        => quotes' = quotes /\ serial' = serial /\ brands' = brands]_vars

\* Two consecutive lookups of a stored quote on an unchanged store.
C12_Witness ==
  /\ lookup.pc = "done" /\ lookup.prev # Null
  /\ lookup.prev.id = lookup.id /\ lookup.prev.read = lookup.read
  /\ lookup.row # Null

-----------------------------------------------------------------------------
(* A returned Premium is found again (C13).                                *)

\* C13: once calculatePremium has returned a Premium P, each getById(P.id)
\* made after that, whatever other calculatePremium and getById calls come
\* before or run next to it, gives a record equal to P (id, monthlyPremium,
\* yearlyPremium), and so does GET /quote/:id.
C13_RoundTrip ==
  lookup.pc = "done" =>
    \A i \in 1..lookup.known :
      returned[i].premium.id = lookup.id =>
        /\ lookup.premium = returned[i].premium
        /\ lookup.response = returned[i].premium

\* A Premium returned before the lookup was made is looked up after another
\* lookup and with a second quote in the store.
C13_Witness ==
  /\ lookup.pc = "done" /\ lookup.prev # Null /\ Len(quotes) = MaxQuotes
  /\ \E i \in 1..lookup.known : returned[i].premium.id = lookup.id

-----------------------------------------------------------------------------
(* The repository calls of one calculatePremium (C14).                     *)

\* The calls in flight and the one that ended last, with their arguments
\* and the repository methods they have invoked so far.
Invocations ==
  {calls[s] : s \in Active} \cup (IF Ended THEN {last} ELSE {})

\* C14: a calculatePremium call that ended on the age or the price check
\* invoked no repository method, one that ended on UnknownBrand or
\* RiskTooHigh invoked findById once and nothing else, one that returned a
\* Premium invoked findById once and then save once; no call invokes
\* findById before both input checks passed, nor save before the brand was
\* found and the brand's age check passed.
C14_RepositoryCalls ==
  /\ Ended =>
       /\ last.outcome \in {"DriveTooYoungError", "PurchasePriceTooLowError"}
            => last.repo = << >>
       /\ last.outcome \in {"UnknownCarBrandError", "RiskTooHighError"}
            => last.repo = << "findById" >>
       /\ last.outcome = "Premium" => last.repo = << "findById", "save" >>
  /\ \A call \in Invocations :
       /\ call.repo \in {<< >>, << "findById" >>, << "findById", "save" >>}
       /\ call.repo # << >> =>
            InputChecks(call.ageOfDriver, call.purchasePrice) = "passed"
       /\ Len(call.repo) = 2 =>
            BrandChecks(call.ageOfDriver, findById(call.carId)) = "passed"

\* One call has ended on a brand rule after its one lookup while another
\* has invoked save.
C14_Witness ==
  /\ Ended /\ last.outcome = "RiskTooHighError"
  /\ \E s \in Active : calls[s].repo = << "findById", "save" >>

-----------------------------------------------------------------------------
(* Storage failures (C15).                                                 *)

\* C15: when findById or save fails with a storage error, calculatePremium
\* fails with that very error; the operation that failed was invoked once
\* (findById alone, or findById and then save); and no quote is stored for
\* the call: the step that ends it leaves the store as it was, and the store
\* keeps holding one quote per Premium returned or about to be.
C15_StorageFailure ==
  /\ [](Ended /\ last.outcome = "StorageFailure" =>
          /\ last.error = last.raised
          /\ last.raised \in StorageErrors
          /\ last.repo \in {<< "findById" >>, << "findById", "save" >>})
  /\ [](Len(quotes) = Len(returned) + Cardinality(Saved))
  /\ [][last' # last /\ last'.outcome = "StorageFailure"
        => quotes' = quotes]_vars

\* A save has failed while the store holds the quote of another call.
C15_Witness ==
  /\ Ended /\ last.outcome = "StorageFailure"
  /\ last.repo = << "findById", "save" >>
  /\ Len(quotes) > 0

-----------------------------------------------------------------------------
(* Every call ends, in one of six ways (C16).                              *)

Outcomes ==
  {"Premium", "DriveTooYoungError", "PurchasePriceTooLowError",
   "UnknownCarBrandError", "RiskTooHighError", "StorageFailure"}

\* C16: every calculatePremium call whose repository calls return or fail
\* comes to an end; it ends once, with the Premium, with one of the four
\* rule violations or with the error a repository rejected with, and a
\* Premium is there exactly when the outcome is Premium.
C16_Terminates ==
  /\ \A s \in Slots : (calls[s].pc # "idle") ~> (calls[s].pc = "idle")
  /\ [](Ended => /\ last.outcome \in Outcomes
                 /\ last.outcome = "Premium" <=> last.premium # Undefined
                 /\ last.outcome = "StorageFailure" <=> "error" \in DOMAIN last)
  /\ [][\A s \in Slots :
          calls[s].pc # "idle" /\ calls'[s].pc = "idle"
            => Ended' /\ Args(last') = Args(calls[s])]_vars

\* A call has ended with a storage failure while another is in flight.
C16_Witness ==
  Ended /\ last.outcome = "StorageFailure" /\ Active # {}

-----------------------------------------------------------------------------
(* The responses to rule violations and to lookups that find nothing (C17). *)

\* C17: a calculatePremium that ended on a rule violation is answered with
\* status 409, the message 'Business rule violation' and one errors entry
\* that names the class of the violation; the four kinds give four names;
\* a lookup that found no quote is answered with 404 and never with 409.
C17_Conflict ==
  /\ Ended /\ last.outcome \in BusinessRuleViolations =>
       /\ last.http.status = 409
       /\ last.http.body.message = "Business rule violation"
       /\ last.http.body.errors = << [name |-> last.outcome] >>
  /\ Cardinality({catch(Error(kind)).body.errors[1].name :
                    kind \in BusinessRuleViolations}) = 4
  /\ lookup.pc = "done" /\ lookup.row = Null => lookup.http.status = 404

-----------------------------------------------------------------------------
(* Requests without a valid token (C18).                                   *)

\* A step in which a handler of the QuoteController starts to run: post
\* calls calculatePremium, which ends on an input check or awaits findById,
\* or getById calls the service's getById, which awaits load.
PostStarts ==
  \/ \E s \in Slots : calls[s].pc = "idle" /\ calls'[s].pc # "idle"
  \/ calls' = calls /\ last' # last

GetStarts ==
  lookup.pc \in {"idle", "done"} /\ lookup'.pc \in {"select", "loaded"}

\* C18: a request to POST /quote/calculate or GET /quote/:id that carries
\* no valid JWT is answered 401 Unauthorized, GET /quote/<unknown id>
\* included (401, not 404); the step that answers it touches neither store
\* and starts no call; and a handler only ever starts for a request of its
\* route that the guard let through, which carried a valid token.
C18_Unauthorized ==
  /\ [](guard # Null /\ guard.token # "valid" =>
          /\ ~guard.activated
          /\ guard.http = [status |-> 401,
                           body |-> [statusCode |-> 401,
                                     message |-> "Unauthorized"]])
  /\ [][guard' # guard /\ guard'.token # "valid" =>
          UNCHANGED <<brands, quotes, serial, clock, calls, last, returned,
                      lookup>>]_vars
  /\ [][PostStarts =>
          Activated("POST /quote/calculate") /\ guard.token = "valid"]_vars
  /\ [][GetStarts =>
          Activated("GET /quote/:id") /\ guard.token = "valid"]_vars

\* GET /quote/9001 without a token was turned away while the store holds a
\* quote and an earlier lookup of that id had found nothing.
C18_Witness ==
  /\ guard # Null /\ guard.route = "GET /quote/:id" /\ guard.token = "none"
  /\ guard.input = 9001 /\ guard.http.status = 401
  /\ Len(quotes) > 0
  /\ lookup.pc = "done" /\ lookup.row = Null

-----------------------------------------------------------------------------
(* The outcome is a function of the arguments and the brands (C19).        *)

\* The amounts of a Premium, its id left aside.
Amounts(premium) ==
  [monthlyPremium |-> premium.monthlyPremium,
   yearlyPremium |-> premium.yearlyPremium]

\* The calls that returned a Premium for the arguments of the call that
\* ended last.
ReturnedForLast ==
  {i \in 1..Len(returned) : Args(returned[i]) = Args(last)}

\* What the rules make of the arguments and the brand list, the quote store
\* left out of it.
Verdict(args) ==
  IF InputChecks(args.ageOfDriver, args.purchasePrice) # "passed"
    THEN InputChecks(args.ageOfDriver, args.purchasePrice)
  ELSE IF BrandChecks(args.ageOfDriver, findById(args.carId)) # "passed"
    THEN BrandChecks(args.ageOfDriver, findById(args.carId))
  ELSE "Premium"

\* C19: of the calls no repository failed on, two with the same driverAge,
\* brandId and purchasePrice end in the same kind of outcome and, when that
\* is a Premium, with the same monthly and yearly amounts, whatever the
\* quote store holds: the outcome is the one the rules give for the
\* arguments and the brand list, and the amounts are the brand's.
C19_Deterministic ==
  /\ \A i, j \in 1..Len(returned) :
       Args(returned[i]) = Args(returned[j]) =>
         Amounts(returned[i].premium) = Amounts(returned[j].premium)
  /\ Ended /\ last.outcome # "StorageFailure" =>
       /\ last.outcome = Verdict(Args(last))
       /\ \A i \in ReturnedForLast :
            /\ last.outcome = "Premium"
            /\ Amounts(last.premium) = Amounts(returned[i].premium)

\* A call has returned a Premium with the amounts of an earlier call with
\* its arguments, made when the store was empty.
C19_Witness ==
  /\ Ended /\ last.outcome = "Premium" /\ Len(returned) = 2
  /\ Args(returned[1]) = Args(returned[2])
  /\ returned[1].premium.id # returned[2].premium.id

-----------------------------------------------------------------------------
(* What calculatePremium and getById leave alone (C20).                    *)

\* C20: no step of calculatePremium or getById changes the Brand store, and
\* none removes or alters a stored quote: a step leaves the quote store as
\* it is or appends one quote to it, every quote stored before keeping its
\* place and its field values.
C20_Frame ==
  [][/\ brands' = brands
     /\ Len(quotes') \in {Len(quotes), Len(quotes) + 1}
     /\ SubSeq(quotes', 1, Len(quotes)) = quotes]_vars

\* The store has been appended to twice and a lookup has read a quote.
C20_Witness ==
  /\ Len(quotes) = MaxQuotes
  /\ lookup.pc = "done" /\ lookup.row # Null
  /\ Len(returned) = MaxQuotes

-----------------------------------------------------------------------------
(* The amounts of a stored quote (C21).                                    *)

\* C21: in every reachable state each stored quote has the yearlyPremium of
\* the brand that findById gives for the brandId of the call that created
\* it, and for monthlyPremium that amount over 12 rounded to the nearest
\* integer, a half going up.
C21_StoredAmounts ==
  \A i \in 1..Len(quotes) :
    /\ \E c \in Creators : c.id = StoredQuotes[i].id
    /\ \A c \in Creators :
         c.id = StoredQuotes[i].id =>
           /\ findById(c.carId) # Null
           /\ StoredQuotes[i].yearlyPremium = findById(c.carId).yearlyPremium
           /\ StoredQuotes[i].monthlyPremium =
                (findById(c.carId).yearlyPremium + 6) \div 12

\* Two quotes created for brands of different price are stored.
C21_Witness ==
  /\ Len(quotes) = 2
  /\ StoredQuotes[1].yearlyPremium # StoredQuotes[2].yearlyPremium
  /\ \E c \in Creators : c.id = StoredQuotes[2].id

-----------------------------------------------------------------------------
(* The brand list of the in-memory CarBrandRepository (C22).               *)

\* C22: the brands of the in-memory CarBrandRepository have pairwise
\* distinct ids, findById(1), findById(2) and findById(3) are Audi, BMW and
\* Porsche, and a call for a driver of 18 and brand 3 whose price passes
\* ends in RiskTooHigh.
C22_UniqueBrandIds ==
  composition = "knex" =>
    /\ \A i, j \in 1..Len(brands) : i # j => brands[i].id # brands[j].id
    /\ findById(1) = brands[1] /\ brands[1].name = "Audi"
    /\ findById(2) = brands[2] /\ brands[2].name = "BMW"
    /\ findById(3) = brands[3] /\ brands[3].name = "Porsche"
    /\ Ended /\ last.ageOfDriver = 18 /\ last.carId = 3
         /\ last.purchasePrice >= MINIMUM_PURCHASE_PRICE
       => last.outcome = "RiskTooHighError"

-----------------------------------------------------------------------------
(* An unknown brand and a driver under 18 (C23).                           *)

\* C23 as stated: a call whose brandId is not in the brand store and whose
\* driverAge is below 18 reports UnknownBrand whatever the price, and no
\* call with such a brandId reports RiskTooHigh.
C23_UnderageUnknown ==
  Ended /\ LastBrand = Null =>
    /\ last.ageOfDriver < 18 => last.outcome = "UnknownCarBrandError"
    /\ last.outcome # "RiskTooHighError"

\* C23: a call whose brandId is not in the brand store reports
\* DriverTooYoung when its driverAge is below 18, PurchasePriceTooLow when
\* not but its price is below 5000, and UnknownBrand otherwise; it never
\* reports RiskTooHigh.
C23_UnknownNeverRisk ==
  Ended /\ LastBrand = Null =>
    /\ last.outcome =
         IF last.ageOfDriver < 18 THEN "DriveTooYoungError"
         ELSE IF last.purchasePrice < 5000 THEN "PurchasePriceTooLowError"
         ELSE "UnknownCarBrandError"
    /\ last.outcome # "RiskTooHighError"

\* A driver of 17 asked for a brand that is not in the store, at a price
\* that passes.
C23_Witness ==
  /\ Ended /\ LastBrand = Null /\ last.ageOfDriver < 18
  /\ last.purchasePrice >= 5000 /\ last.outcome = "DriveTooYoungError"

-----------------------------------------------------------------------------
(* The limits are inclusive (C24).                                         *)

\* The larger of 18 and a brand's minimum age.
RequiredAge(brand) ==
  IF brand.minimumDriverAge > 18 THEN brand.minimumDriverAge ELSE 18

\* C24: a driverAge of exactly 18 is never rejected as DriverTooYoung, a
\* purchasePrice of exactly 5000 never as PurchasePriceTooLow, a driverAge
\* equal to the minimum age of a brand with the call's brandId never as
\* RiskTooHigh; and for every brand of the store a call with that brand's
\* id, the larger of 18 and its minimum age, and the price 5000 returns a
\* Premium.
C24_InclusiveLimits ==
  Ended =>
    /\ last.ageOfDriver = 18 => last.outcome # "DriveTooYoungError"
    /\ last.purchasePrice = 5000 => last.outcome # "PurchasePriceTooLowError"
    /\ \A k \in 1..Len(brands) :
         last.carId = brands[k].id =>
           /\ last.ageOfDriver = brands[k].minimumDriverAge
                => last.outcome # "RiskTooHighError"
           /\ last.ageOfDriver = RequiredAge(brands[k])
                /\ last.purchasePrice = 5000
                => last.outcome = "Premium"

\* A driver of exactly the 25 years a brand asks for got a Premium at the
\* price of exactly 5000.
C24_Witness ==
  /\ Ended /\ last.outcome = "Premium" /\ last.purchasePrice = 5000
  /\ LastBrand # Null /\ LastBrand.minimumDriverAge = 25
  /\ last.ageOfDriver = 25

-----------------------------------------------------------------------------
(* The ids of the in-memory quote store (C25).                             *)

\* The ids handed to the calls that stored a quote.
IdsHanded ==
  {returned[i].premium.id : i \in 1..Len(returned)}
    \cup {calls[s].quote.id : s \in Saved}

\* C25: with the in-memory quote store, the k-th quote created has id k:
\* ids start at 1 and grow by 1 with each quote stored, so they increase in
\* the order of creation; the calls that stored a quote hold exactly these
\* ids, one each, and a call that ends in a rule violation takes none, so
\* with no call in flight the k calls that succeeded were given 1..k.
C25_IdsCountUp ==
  composition = "test" =>
    /\ \A k \in 1..Len(quotes) : quotes[k].id = k
    /\ IdsHanded = 1..Len(quotes)
    /\ Len(returned) + Cardinality(Saved) = Len(quotes)
    /\ Quiescent => {returned[i].premium.id : i \in 1..Len(returned)}
                      = 1..Len(returned)

\* Two calls have succeeded on the in-memory store and a later one ended in
\* a rule violation.
C25_Witness ==
  /\ composition = "test" /\ Quiescent /\ Len(returned) = 2
  /\ returned[1].premium.id = 1 /\ returned[2].premium.id = 2
  /\ Ended /\ last.outcome \in BusinessRuleViolations

-----------------------------------------------------------------------------
(* Each call gets its own quote (C26).                                     *)

\* C26: with calls interleaved at their awaits, under the id handed to a
\* call by save exactly one quote is stored, and it carries that call's
\* driverAge and the yearlyPremium of the brand findById gives for that
\* call's brandId; the Premium the call holds or has returned has that id's
\* amounts.
C26_OwnQuote ==
  /\ \A c \in Creators :
       /\ Cardinality(StoredUnder(c.id)) = 1
       /\ \A i \in StoredUnder(c.id) :
            /\ StoredQuotes[i].ageOfDriver = c.ageOfDriver
            /\ StoredQuotes[i].yearlyPremium = findById(c.carId).yearlyPremium
  /\ \A i \in 1..Len(returned) :
       \A k \in StoredUnder(returned[i].premium.id) :
         returned[i].premium = ToPremium(StoredQuotes[k])
  /\ \A s \in Saved :
       \A k \in StoredUnder(calls[s].quote.id) :
         ToPremium(calls[s].quote) = ToPremium(StoredQuotes[k])

\* Two calls for drivers of different age and brands of different price
\* are both past save and neither has returned.
C26_Witness ==
  /\ Cardinality(Saved) = 2
  /\ \E s, t \in Saved :
       /\ calls[s].ageOfDriver # calls[t].ageOfDriver
       /\ calls[s].quote.yearlyPremium # calls[t].quote.yearlyPremium

-----------------------------------------------------------------------------
(* The monthly premium is the yearly one over 12, a half going up (C27).   *)

\* C27: for a brand of integer yearlyPremium Y >= 0 the monthlyPremium of
\* every Premium returned is floor((Y + 6) / 12); when Y mod 12 = 6 it is
\* the upper integer, (Y + 6) / 12; and 12 * monthlyPremium differs from Y
\* by 6 at most.
C27_RoundHalfUp ==
  \A i \in 1..Len(returned) :
    LET Y == findById(returned[i].carId).yearlyPremium
        m == returned[i].premium.monthlyPremium
    IN /\ returned[i].premium.yearlyPremium = Y
       /\ m = (Y + 6) \div 12
       /\ Y % 12 = 6 => 12 * m = Y + 6
       /\ 12 * m - Y <= 6 /\ Y - 12 * m <= 6

\* A Premium was returned for the yearly premium 150: 13 a month.
C27_Witness ==
  /\ Len(returned) > 0
  /\ returned[1].premium.yearlyPremium = 150
  /\ returned[1].premium.monthlyPremium = 13

-----------------------------------------------------------------------------
(* The fields of a returned premium (C28).                                 *)

PremiumFields == {"id", "monthlyPremium", "yearlyPremium"}

\* C28: what calculatePremium returns, what QuoteService.getById returns
\* for a quote it found, and the bodies the controller's post and getById
\* answer with, have the fields id, monthlyPremium and yearlyPremium and no
\* other: ageOfDriver and createdOn of the stored quote are not among them.
C28_ThreeFields ==
  /\ \A i \in 1..Len(returned) : DOMAIN returned[i].premium = PremiumFields
  /\ Ended /\ last.outcome = "Premium" =>
       /\ DOMAIN last.premium = PremiumFields
       /\ last.http.body = last.premium
  /\ lookup.pc = "done" /\ lookup.row # Null =>
       /\ DOMAIN lookup.premium = PremiumFields
       /\ DOMAIN lookup.response = PremiumFields
       /\ lookup.http.body = lookup.response

\* A Premium has been returned by calculatePremium and one by getById.
C28_Witness ==
  /\ Ended /\ last.outcome = "Premium"
  /\ lookup.pc = "done" /\ lookup.row # Null
  /\ lookup.row.ageOfDriver = 25

-----------------------------------------------------------------------------
(* The middleware answers or hands on, never both, never neither (C29).    *)

\* C29: for every request RequireContentTypeMiddleware.use either calls
\* next() once and sends nothing, which it does when the content-type
\* header equals the configured requiredContentType, or sends one response,
\* of status 400, and does not call next(), which it does when the header
\* differs or is missing; and no handler starts unless next() was called.
C29_AnswerOrNext ==
  /\ [](middleware.pc = "used" =>
          IF middleware.contentType = Header(middleware.requiredContentType)
            THEN middleware.next = 1 /\ middleware.sent = << >>
            ELSE /\ middleware.next = 0
                 /\ Len(middleware.sent) = 1
                 /\ middleware.sent[1].status = 400)
  /\ [][PostStarts => Passed]_vars

\* A request without a content-type header got the 400 after an earlier
\* request had been handed on and had stored a quote.
C29_Witness ==
  /\ middleware.pc = "used" /\ middleware.contentType = Undefined
  /\ middleware.next = 0 /\ Len(middleware.sent) = 1
  /\ Len(quotes) > 0

-----------------------------------------------------------------------------
(* validate returns the user or null (C30).                                *)

\* C30: AuthenticationService.validate returns the user's id and username,
\* and nothing else, when a user of that username exists and the password
\* is that user's; for an unknown username and for a known one with another
\* password it returns null, and it raises in neither case.
C30_UserOrNull ==
  session # Null =>
    /\ ~IsError(session.validated)
    /\ IF \E i \in 1..Len(Users) :
            /\ Users[i].username = session.username
            /\ Users[i].password = session.password
         THEN \E i \in 1..Len(Users) :
                /\ Users[i].username = session.username
                /\ session.validated = [id |-> Users[i].id,
                                        username |-> Users[i].username]
         ELSE session.validated = Null

\* Alice signed in with her password and was handed back as user 2.
C30_Witness ==
  /\ session # Null
  /\ session.username = "Alice" /\ session.password = "def456"
  /\ session.validated = [id |-> 2, username |-> "Alice"]

====
